---- MODULE Spec2Model ----
(***************************************************************************)
(* Model of src/bot.py: a Discord bot that answers a message holding a     *)
(* Spotify track link with the TIDAL search result for the same track, and *)
(* a message holding a TIDAL track link with the Spotify search result.    *)
(*                                                                         *)
(* Text is a sequence of tokens.  The tokens are chosen so that the        *)
(* substring tests and splits of the code ("open.spotify.com/track/",      *)
(* "tidal.com/browse/track/", "track/", "?") fall on token boundaries: no  *)
(* other token, and no run of other tokens, spells one of them.            *)
(*                                                                         *)
(* The handlers are coroutines on one event loop: a handler keeps the loop *)
(* from the moment it is resumed until its next await that really waits    *)
(* (message.reply) or its end.  The provider calls (sp.track,              *)
(* tidal_session.track, the searches, login_oauth_simple) are plain        *)
(* blocking calls: the handler holds the loop across them.                 *)
(***************************************************************************)
EXTENDS Integers, Sequences, FiniteSets, TLC

VARIABLES
    task,        \* task[h]: the on_message coroutine of the h-th message
    running,     \* the coroutine that holds the event loop, or Free
    loggedIn,    \* tidal_session holds a login
    readyPc,     \* the on_ready coroutine: "idle", "queued", "login"
    nReady,      \* ready events dispatched so far
    nLogins      \* calls of tidal_session.login_oauth_simple so far

vars == <<task, running, loggedIn, readyPc, nReady, nLogins>>

----------------------------------------------------------------------------
\* Bounds of the model

MaxMsgs == 2
MaxReady == 2
MaxFails == 2
MaxParts == 3

Handlers == 1..MaxMsgs

----------------------------------------------------------------------------
\* Text

SP == "open.spotify.com/"
TD == "tidal.com/browse/"
TR == "track/"
QM == "?"
WS == " "
HTTPS == "https://"

SpotifyAnchor == <<SP, TR>>
TidalAnchor == <<TD, TR>>

\* Python: pat in s
Contains(s, pat) ==
    \E i \in 1..(Len(s) - Len(pat) + 1) : SubSeq(s, i, i + Len(pat) - 1) = pat

RECURSIVE LStrip(_)
LStrip(s) == IF s # <<>> /\ Head(s) = WS THEN LStrip(Tail(s)) ELSE s

RECURSIVE RStrip(_)
RStrip(s) ==
    IF s # <<>> /\ s[Len(s)] = WS THEN RStrip(SubSeq(s, 1, Len(s) - 1)) ELSE s

\* Python: s.strip()
Strip(s) == RStrip(LStrip(s))

\* Python: s.split(sep), sep one token: the pieces between the occurrences
RECURSIVE Split(_, _)
Split(s, sep) ==
    IF \A i \in 1..Len(s) : s[i] # sep
    THEN <<s>>
    ELSE LET i == CHOOSE k \in 1..Len(s) :
                      s[k] = sep /\ \A j \in 1..(k - 1) : s[j] # sep
         IN  <<SubSeq(s, 1, i - 1)>> \o Split(SubSeq(s, i + 1, Len(s)), sep)

\* content.split("track/")[1] raises IndexError when there is no second piece
SplitRaises(content) == Len(Split(content, TR)) < 2

\* track_id = content.split("track/")[1].split("?")[0]
TrackId(content) == Split(Split(content, TR)[2], QM)[1]

\* Mutant of Branch: any "track/" in the text is taken for a Spotify link
BranchAnyTrack(content) ==
    IF Contains(content, <<TR>>) THEN "spotify"
    ELSE IF Contains(content, TidalAnchor) THEN "tidal"
    ELSE "none"

\* The branch on_message takes for the stripped content
Branch(content) ==
    IF Contains(content, SpotifyAnchor) THEN "spotify"
    ELSE IF Contains(content, TidalAnchor) THEN "tidal"
    ELSE "none"

----------------------------------------------------------------------------
\* The providers.  A track of a catalogue is its id and its metadata.

None == <<>>
NoTrack == [artist |-> "", name |-> ""]
Song1 == [artist |-> "A1", name |-> "N1"]
Song2 == [artist |-> "A2", name |-> "N2"]

\* What sp.track answers for an id: the ids Spotify knows
SpotifyCatalog == [id \in {"s1", "s2"} |-> IF id = "s1" THEN Song1 ELSE Song2]

\* What tidal_session.track answers for an id: the ids TIDAL knows
TidalCatalog == [id \in {"t1", "t2"} |-> IF id = "t1" THEN Song1 ELSE Song2]

\* Mutant of Attempts: a call is repeated until the transient failures end
AttemptsWithRetry == 1 + MaxFails

\* A provider call is attempted this many times
Attempts == 1

\* The result lists a search with limit=1 can return: no track, or one track of
\* the provider's catalogue.  Which one is the provider's choice (its ranking of
\* the free-text query), so a returned track need not be the one asked for.
SearchResults(catalog) == {<<>>} \cup {<<id>> : id \in DOMAIN catalog}

\* Outbound calls made for one provider call that fails f times before it
\* would answer
CallsMade(f) == IF f >= Attempts THEN Attempts ELSE f + 1

\* sp.track(track_id): f is the number of consecutive transient failures the
\* provider gives before it would answer
sp_track(track_id, f) ==
    IF f >= Attempts THEN [res |-> "transient", track |-> NoTrack]
    ELSE IF \E id \in DOMAIN SpotifyCatalog : track_id = <<id>>
         THEN [res |-> "ok", track |-> SpotifyCatalog[track_id[1]]]
         ELSE [res |-> "notfound", track |-> NoTrack]

\* tidal_session.track(track_id): a session without a login is refused
tidal_track(track_id, f, login) ==
    IF ~login THEN [res |-> "auth", track |-> NoTrack]
    ELSE IF f >= Attempts THEN [res |-> "transient", track |-> NoTrack]
    ELSE IF \E id \in DOMAIN TidalCatalog : track_id = <<id>>
         THEN [res |-> "ok", track |-> TidalCatalog[track_id[1]]]
         ELSE [res |-> "notfound", track |-> NoTrack]

\* Mutant of get_tidal_url: a found track whose artist and title differ from
\* the source track's is dropped
get_tidal_url_scored(track, f, found, login) ==
    IF ~login
    THEN [raised |-> FALSE, res |-> "auth", link |-> None]
    ELSE IF f >= Attempts
    THEN [raised |-> FALSE, res |-> "transient", link |-> None]
    ELSE IF found # <<>>
         THEN [raised |-> FALSE, res |-> "hit",
               link |-> IF TidalCatalog[found[1]] = track
                        THEN <<HTTPS, TD, TR, found[1]>> ELSE None]
         ELSE [raised |-> FALSE, res |-> "empty", link |-> None]

\* Mutant of get_tidal_url: the link is built on the source provider's host
get_tidal_url_same_provider(track, f, found, login) ==
    IF ~login
    THEN [raised |-> FALSE, res |-> "auth", link |-> None]
    ELSE IF f >= Attempts
    THEN [raised |-> FALSE, res |-> "transient", link |-> None]
    ELSE IF found # <<>>
         THEN [raised |-> FALSE, res |-> "hit",
               link |-> <<HTTPS, SP, TR, found[1]>>]
         ELSE [raised |-> FALSE, res |-> "empty", link |-> None]

\* Mutant of get_tidal_url: a failed search is raised to the caller
get_tidal_url_raises(track, f, found, login) ==
    IF ~login
    THEN [raised |-> TRUE, res |-> "auth", link |-> None]
    ELSE IF f >= Attempts
    THEN [raised |-> TRUE, res |-> "transient", link |-> None]
    ELSE IF found # <<>>
         THEN [raised |-> FALSE, res |-> "hit",
               link |-> <<HTTPS, TD, TR, found[1]>>]
         ELSE [raised |-> FALSE, res |-> "empty", link |-> None]

\* get_tidal_url(artist, track_name): the search is made with the module's
\* tidal_session; found is the list the provider would answer with.  Every
\* exception of the search is caught inside and None is returned.
get_tidal_url(track, f, found, login) ==
    IF ~login
    THEN [raised |-> FALSE, res |-> "auth", link |-> None]
    ELSE IF f >= Attempts
    THEN [raised |-> FALSE, res |-> "transient", link |-> None]
    ELSE IF found # <<>>
         THEN [raised |-> FALSE, res |-> "hit",
               link |-> <<HTTPS, TD, TR, found[1]>>]
         ELSE [raised |-> FALSE, res |-> "empty", link |-> None]

\* get_spotify_url(artist, track_name): as get_tidal_url, through sp
get_spotify_url(track, f, found) ==
    IF f >= Attempts
    THEN [raised |-> FALSE, res |-> "transient", link |-> None]
    ELSE IF found # <<>>
         THEN [raised |-> FALSE, res |-> "hit",
               link |-> <<HTTPS, SP, TR, found[1]>>]
         ELSE [raised |-> FALSE, res |-> "empty", link |-> None]

----------------------------------------------------------------------------
\* The event loop

Free == <<>>
OnMessage(h) == <<"on_message", h>>
OnReady == <<"on_ready">>

Authors == {"user", "bot"}

\* Mutant of except_Exception: only a lookup's not-found error is caught
except_NotFoundOnly(kind) == kind = "notfound"

\* except Exception as e: the handlers' except clauses catch every failure of
\* a call made in their try block (kind names the failure)
except_Exception(kind) == TRUE

\* Mutant of IsOwnMessage: no message is taken for the bot's own
IsOwnMessageNever(author) == FALSE

\* message.author == bot.user
IsOwnMessage(author) == author = "bot"

\* Mutant of LookupSucceeded: a failed lookup is passed over and the flow
\* goes on to the search
LookupIgnoresFailure(res) == TRUE

\* The statements after the lookup run when the lookup did not raise
LookupSucceeded(res) == res = "ok"

\* Mutant of Truthy: the reply is sent whatever the helper returned
TruthyAlways(link) == TRUE

\* if tidal_link: / if spotify_link:
Truthy(link) == link # None

IdleTask ==
    [pc |-> "idle", author |-> "user", content |-> <<>>, source |-> "none",
     track_id |-> <<>>, lookup |-> "none", track |-> NoTrack,
     search |-> "none", link |-> None, reply |-> None, outcome |-> "none",
     tidalUse |-> "none",
     nLookups |-> 0, nSearches |-> 0, nReplies |-> 0, nCmds |-> 0]

Init ==
    /\ task = [h \in Handlers |-> IdleTask]
    /\ running = Free
    /\ loggedIn = FALSE
    /\ readyPc = "idle"
    /\ nReady = 0
    /\ nLogins = 0

\* The gateway dispatches a ready event: the on_ready coroutine is scheduled
ReadyEvent ==
    /\ readyPc \in {"idle", "raised"}
    /\ nReady < MaxReady
    /\ readyPc' = "queued"
    /\ nReady' = nReady + 1
    /\ UNCHANGED <<task, running, loggedIn, nLogins>>

\* on_ready starts and calls tidal_session.login_oauth_simple(), which blocks
OnReadyBegin ==
    /\ readyPc = "queued"
    /\ running = Free
    /\ readyPc' = "login"
    /\ running' = OnReady
    /\ nLogins' = nLogins + 1
    /\ UNCHANGED <<task, loggedIn, nReady>>

\* login_oauth_simple returns (the session holds a login) or raises (caught
\* and printed; the session is as it was); on_ready ends
OnReadyLogin ==
    /\ readyPc = "login"
    /\ running = OnReady
    /\ \E ok \in BOOLEAN :
        /\ loggedIn' = (loggedIn \/ ok)
        /\ readyPc' = IF ok \/ except_Exception("login") THEN "idle"
                      ELSE "raised"
    /\ running' = Free
    /\ UNCHANGED <<task, nReady, nLogins>>

\* The gateway dispatches the h-th message: its on_message is scheduled
Deliver(h, a, c) ==
    /\ task[h].pc = "idle"
    /\ h > 1 => task[h - 1].pc # "idle"
    /\ task' = [task EXCEPT ![h].pc = "queued", ![h].author = a,
                            ![h].content = c]
    /\ UNCHANGED <<running, loggedIn, readyPc, nReady, nLogins>>

\* on_message from its start to the source lookup (or to process_commands)
Begin(h) ==
    /\ task[h].pc = "queued"
    /\ running = Free
    /\ LET content == Strip(task[h].content)
           t == [task[h] EXCEPT !.source = Branch(content)]
       IN  IF IsOwnMessage(t.author)
           THEN /\ task' = [task EXCEPT ![h].pc = "done",
                                        ![h].outcome = "Ignored"]
                /\ running' = Free
           ELSE IF t.source = "none"
           THEN /\ task' = [task EXCEPT ![h] =
                               [t EXCEPT !.pc = "cmds", !.outcome = "NoLink"]]
                /\ running' = OnMessage(h)
           ELSE IF ~SplitRaises(content)
           THEN /\ task' = [task EXCEPT ![h] =
                               [t EXCEPT !.pc = "lookup",
                                         !.track_id = TrackId(content)]]
                /\ running' = OnMessage(h)
           ELSE IF except_Exception("index")
           THEN /\ task' = [task EXCEPT ![h] =
                               [t EXCEPT !.pc = "cmds", !.outcome = "Error"]]
                /\ running' = OnMessage(h)
           ELSE /\ task' = [task EXCEPT ![h] = [t EXCEPT !.pc = "raised"]]
                /\ running' = Free
    /\ UNCHANGED <<loggedIn, readyPc, nReady, nLogins>>

\* Mutant of Lookup: a lookup refused for want of a login starts the login
\* again from the handler
LookupRelogin(h) ==
    /\ task[h].pc = "lookup"
    /\ running = OnMessage(h)
    /\ \E f \in 0..MaxFails :
        LET t == task[h]
            r == IF t.source = "spotify" THEN sp_track(t.track_id, f)
                 ELSE tidal_track(t.track_id, f, loggedIn)
            use == IF t.source = "spotify" THEN t.tidalUse
                   ELSE IF loggedIn THEN "loggedin" ELSE "loggedout"
            called == [t EXCEPT !.lookup = r.res, !.track = r.track,
                                !.tidalUse = use,
                                !.nLookups = t.nLookups + CallsMade(f)]
        IN  /\ IF LookupSucceeded(r.res)
               THEN /\ task' = [task EXCEPT ![h] =
                                   [called EXCEPT !.pc = "search"]]
                    /\ running' = running
               ELSE IF except_Exception(r.res)
               THEN /\ task' = [task EXCEPT ![h] =
                                   [called EXCEPT !.pc = "cmds",
                                                  !.outcome = "Error"]]
                    /\ running' = running
               ELSE /\ task' = [task EXCEPT ![h] =
                                   [called EXCEPT !.pc = "raised"]]
                    /\ running' = Free
            /\ nLogins' = IF r.res = "auth" THEN nLogins + 1 ELSE nLogins
    /\ UNCHANGED <<loggedIn, readyPc, nReady>>

\* The source lookup: sp.track(track_id) or tidal_session.track(track_id).
\* A raise is caught by the branch's except, which prints.
Lookup(h) ==
    /\ task[h].pc = "lookup"
    /\ running = OnMessage(h)
    /\ \E f \in 0..MaxFails :
        LET t == task[h]
            r == IF t.source = "spotify" THEN sp_track(t.track_id, f)
                 ELSE tidal_track(t.track_id, f, loggedIn)
            use == IF t.source = "spotify" THEN t.tidalUse
                   ELSE IF loggedIn THEN "loggedin" ELSE "loggedout"
            called == [t EXCEPT !.lookup = r.res, !.track = r.track,
                                !.tidalUse = use,
                                !.nLookups = t.nLookups + CallsMade(f)]
        IN  IF LookupSucceeded(r.res)
            THEN /\ task' = [task EXCEPT ![h] = [called EXCEPT !.pc = "search"]]
                 /\ running' = running
            ELSE IF except_Exception(r.res)
            THEN /\ task' = [task EXCEPT ![h] =
                                [called EXCEPT !.pc = "cmds",
                                               !.outcome = "Error"]]
                 /\ running' = running
            ELSE /\ task' = [task EXCEPT ![h] = [called EXCEPT !.pc = "raised"]]
                 /\ running' = Free
    /\ UNCHANGED <<loggedIn, readyPc, nReady, nLogins>>

\* The target search through the helper, and the test of its result: a link
\* starts the reply (the coroutine waits for Discord: the loop is free), None
\* is printed as no match
Search(h) ==
    /\ task[h].pc = "search"
    /\ running = OnMessage(h)
    /\ LET t == task[h]
           spotify == t.source = "spotify"
       IN  \E f \in 0..MaxFails,
              found \in SearchResults(IF spotify THEN TidalCatalog
                                      ELSE SpotifyCatalog) :
            LET r == IF spotify THEN get_tidal_url(t.track, f, found, loggedIn)
                     ELSE get_spotify_url(t.track, f, found)
                use == IF ~spotify THEN t.tidalUse
                       ELSE IF loggedIn THEN "loggedin" ELSE "loggedout"
                called == [t EXCEPT !.search = r.res, !.tidalUse = use,
                                    !.nSearches = t.nSearches + CallsMade(f)]
            IN  IF r.raised
                THEN IF except_Exception("search")
                     THEN /\ task' = [task EXCEPT ![h] =
                                         [called EXCEPT !.pc = "cmds",
                                                        !.outcome = "Error"]]
                          /\ running' = running
                     ELSE /\ task' = [task EXCEPT ![h] =
                                         [called EXCEPT !.pc = "raised"]]
                          /\ running' = Free
                ELSE IF Truthy(r.link)
                THEN /\ task' = [task EXCEPT ![h] =
                                    [called EXCEPT !.pc = "reply",
                                                   !.link = r.link]]
                     /\ running' = Free
                ELSE /\ task' = [task EXCEPT ![h] =
                                    [called EXCEPT !.pc = "cmds",
                                                   !.outcome = "NoMatch"]]
                     /\ running' = running
    /\ UNCHANGED <<loggedIn, readyPc, nReady, nLogins>>

\* Mutant of Reply: the reply is sent a second time
ReplyTwice(h) ==
    /\ task[h].pc = "reply"
    /\ running = Free
    /\ \E sent \in BOOLEAN :
        LET t == task[h]
            label == IF t.source = "spotify"
                     THEN "TIDAL Conversion:" ELSE "Spotify Conversion:"
        IN  IF sent
            THEN /\ task' = [task EXCEPT ![h] =
                                [t EXCEPT !.pc = "cmds",
                                          !.reply = <<label>> \o t.link,
                                          !.nReplies = t.nReplies + 2,
                                          !.outcome = "Matched"]]
                 /\ running' = OnMessage(h)
            ELSE IF except_Exception("discord")
            THEN /\ task' = [task EXCEPT ![h] =
                                [t EXCEPT !.pc = "cmds", !.outcome = "Error"]]
                 /\ running' = OnMessage(h)
            ELSE /\ task' = [task EXCEPT ![h] = [t EXCEPT !.pc = "raised"]]
                 /\ running' = Free
    /\ UNCHANGED <<loggedIn, readyPc, nReady, nLogins>>

\* await message.reply(...) ends: the reply was sent, or Discord refused it
\* and the exception is caught by the branch's except
Reply(h) ==
    /\ task[h].pc = "reply"
    /\ running = Free
    /\ \E sent \in BOOLEAN :
        LET t == task[h]
            label == IF t.source = "spotify"
                     THEN "TIDAL Conversion:" ELSE "Spotify Conversion:"
        IN  IF sent
            THEN /\ task' = [task EXCEPT ![h] =
                                [t EXCEPT !.pc = "cmds",
                                          !.reply = <<label>> \o t.link,
                                          !.nReplies = t.nReplies + 1,
                                          !.outcome = "Matched"]]
                 /\ running' = OnMessage(h)
            ELSE IF except_Exception("discord")
            THEN /\ task' = [task EXCEPT ![h] =
                                [t EXCEPT !.pc = "cmds", !.outcome = "Error"]]
                 /\ running' = OnMessage(h)
            ELSE /\ task' = [task EXCEPT ![h] = [t EXCEPT !.pc = "raised"]]
                 /\ running' = Free
    /\ UNCHANGED <<loggedIn, readyPc, nReady, nLogins>>

\* await bot.process_commands(message), and on_message returns
Cmds(h) ==
    /\ task[h].pc = "cmds"
    /\ running = OnMessage(h)
    /\ task' = [task EXCEPT ![h].pc = "done",
                            ![h].nCmds = task[h].nCmds + 1]
    /\ running' = Free
    /\ UNCHANGED <<loggedIn, readyPc, nReady, nLogins>>

----------------------------------------------------------------------------
\* Message texts

Word == <<"w">>
SpLink == <<SP, TR, "s1">>
TdLink == <<TD, TR, "t1">>

\* The texts of the bot's replies, which the gateway delivers as messages
BotReplies == {<<"TIDAL Conversion:", HTTPS, TD, TR, "t1">>,
               <<"Spotify Conversion:", HTTPS, SP, TR, "s1">>}

\* The texts of the resolution flow's specification
FlowContents == {Word, SpLink, TdLink, SpLink \o <<WS>> \o Word}

\* The texts an author sends: the bot's own messages are its replies
TextsOf(a) == IF a = "bot" THEN BotReplies ELSE FlowContents

\* The parts the texts of the parsing specification are made of
Parts == {SpLink, TdLink, <<QM, "x">>, <<WS>>, Word, <<TR>>}

RECURSIVE Texts(_)
Texts(n) ==
    IF n = 0 THEN {<<>>}
    ELSE Texts(n - 1) \cup {t \o p : t \in Texts(n - 1), p \in Parts}

ParseContents == Texts(MaxParts)

----------------------------------------------------------------------------
\* Specifications

Next ==
    \/ ReadyEvent
    \/ OnReadyBegin
    \/ OnReadyLogin
    \/ \E h \in Handlers, a \in Authors :
          \E c \in TextsOf(a) : Deliver(h, a, c)
    \/ \E h \in Handlers : Begin(h)
    \/ \E h \in Handlers : Lookup(h)
    \/ \E h \in Handlers : Search(h)
    \/ \E h \in Handlers : Reply(h)
    \/ \E h \in Handlers : Cmds(h)

Spec == Init /\ [][Next]_vars

\* One message at a time, of any text of ParseContents
NextParse ==
    \/ ReadyEvent
    \/ OnReadyBegin
    \/ OnReadyLogin
    \/ \E c \in ParseContents : Deliver(1, "user", c)
    \/ Begin(1)
    \/ Lookup(1)
    \/ Search(1)
    \/ Reply(1)
    \/ Cmds(1)

SpecParse == Init /\ [][NextParse]_vars

----------------------------------------------------------------------------
\* Properties

Done(h) == task[h].pc = "done"

\* The message is a user's and its text holds a recognized track link
HasLink(h) ==
    /\ task[h].pc # "idle"
    /\ task[h].author = "user"
    /\ Branch(Strip(task[h].content)) # "none"

\* The metadata of the track the search returned for task h's reply link
LinkTrack(h) ==
    IF task[h].source = "spotify" THEN TidalCatalog[task[h].link[4]]
    ELSE SpotifyCatalog[task[h].link[4]]

\* C1, as stated: every message with a recognized track link that on_message
\* has handled to its end was answered with a reply, whatever the terminal
\* state (match, no match, source not found, provider error).
C1_ReplyInEveryTerminalState ==
    \A h \in Handlers : (Done(h) /\ HasLink(h)) => task[h].nReplies >= 1

\* C1, amended: a handled message was answered with a reply exactly when its
\* flow ended in Matched (source lookup succeeded, the search returned a track,
\* the reply was delivered).  A failed lookup, a failed or empty search and a
\* message with no link all end with no reply.
C1_ReplyOnlyWhenMatched ==
    \A h \in Handlers : Done(h) =>
        /\ task[h].nReplies = (IF task[h].outcome = "Matched" THEN 1 ELSE 0)
        /\ task[h].outcome = "Matched" =>
              /\ task[h].lookup = "ok"
              /\ task[h].search = "hit"
              /\ task[h].reply # None
        /\ task[h].lookup \in {"notfound", "transient", "auth"} =>
              task[h].nReplies = 0 /\ task[h].reply = None
        /\ task[h].search \in {"auth", "transient", "empty"} =>
              task[h].nReplies = 0 /\ task[h].reply = None
        /\ ~HasLink(h) => task[h].nReplies = 0 /\ task[h].reply = None

\* C1 witness: a message with a link was handled to its end, its search
\* returned nothing, and no reply was sent
C1_NoMatchEndsSilent ==
    \E h \in Handlers :
        /\ Done(h) /\ HasLink(h)
        /\ task[h].search = "empty"
        /\ task[h].outcome = "NoMatch"
        /\ task[h].nReplies = 0

\* C2, as stated: on_message never uses the TIDAL session (track lookup or
\* search) while the session holds no successful login.
C2_TidalUsedOnlyAfterLogin ==
    \A h \in Handlers : task[h].tidalUse # "loggedout"

\* C3, as stated: when a message's link was resolved before (an earlier message
\* with the same link ended in a match or in no match), the later message's
\* flow issues no search of its own: its search step makes no outbound call.
C3_SecondServedFromCache ==
    [][\A h1, h2 \in Handlers :
          (/\ h1 # h2
           /\ Done(h1)
           /\ task[h1].search \in {"hit", "empty"}
           /\ task[h2].pc = "search"
           /\ task[h2].source = task[h1].source
           /\ task[h2].track_id = task[h1].track_id)
          => task'[h2].nSearches = task[h2].nSearches]_vars

\* C3, amended: every message issues its own search: one search call when its
\* source lookup succeeded and none otherwise, so two handled messages with
\* the same link whose lookups both succeeded made two search calls.  Nothing
\* is kept from one message to the next.
C3_OneSearchPerMessage ==
    /\ \A h \in Handlers :
          /\ task[h].lookup # "ok" => task[h].nSearches = 0
          /\ (Done(h) /\ task[h].lookup = "ok") => task[h].nSearches = 1
    /\ \A h1, h2 \in Handlers :
          (/\ h1 < h2
           /\ Done(h1) /\ Done(h2)
           /\ task[h1].lookup = "ok" /\ task[h2].lookup = "ok"
           /\ task[h1].content = task[h2].content)
          => task[h1].nSearches + task[h2].nSearches = 2

\* C3 witness: two messages with the same link were handled, each made its own
\* search, and the two searches gave different links
C3_SameLinkSearchedTwice ==
    \E h1, h2 \in Handlers :
        /\ h1 < h2
        /\ Done(h1) /\ Done(h2)
        /\ HasLink(h1)
        /\ task[h1].content = task[h2].content
        /\ task[h1].nSearches = 1 /\ task[h2].nSearches = 1
        /\ task[h1].outcome = "Matched" /\ task[h2].outcome = "Matched"
        /\ task[h1].link # task[h2].link

\* C4, as stated: when the search returned a track whose artist and title are
\* not the source track's, the flow ends in NoMatch and no reply is sent.
C4_NonMatchingCandidateIsNoMatch ==
    \A h \in Handlers :
        (/\ Done(h)
         /\ task[h].search = "hit"
         /\ task[h].link # None
         /\ LinkTrack(h) # task[h].track)
        => task[h].outcome = "NoMatch" /\ task[h].nReplies = 0

\* C4, amended: when the search returned a track, its URL is what the flow
\* replies, whether or not its artist and title are the source track's: the
\* flow never ends in NoMatch, and ends without a reply only when Discord
\* refused the reply.  NoMatch is the end of an empty or failed search only.
C4_FoundTrackIsReplied ==
    /\ \A h \in Handlers :
        (task[h].search = "hit" /\ task[h].pc \in {"cmds", "done"}) =>
            /\ task[h].link # None
            /\ task[h].outcome \in {"Matched", "Error"}
            /\ task[h].outcome = "Matched" =>
                  /\ task[h].nReplies = 1
                  /\ SubSeq(task[h].reply, 2, Len(task[h].reply)) = task[h].link
    /\ \A h \in Handlers :
          task[h].outcome = "NoMatch" =>
              task[h].search \in {"empty", "transient", "auth"}

\* C4 witness: a search returned a track that is not the source track, and its
\* URL was replied
C4_WrongTrackReplied ==
    \E h \in Handlers :
        /\ Done(h)
        /\ task[h].search = "hit"
        /\ task[h].link # None
        /\ LinkTrack(h) # task[h].track
        /\ task[h].nReplies = 1

\* The tokens that end an id: whitespace, "?", and the tokens that hold "/"
Delims == {WS, QM, TR, SP, TD, HTTPS}

\* Occurrences of token tok in text c
Count(c, tok) == Cardinality({i \in 1..Len(c) : c[i] = tok})

\* The text starts with its only track link, and the link's id token is
\* followed by nothing, by "?" or by whitespace
LinkFirst(c) ==
    /\ Len(c) >= 3
    /\ SubSeq(c, 1, 2) \in {SpotifyAnchor, TidalAnchor}
    /\ c[3] \notin Delims
    /\ Len(c) > 3 => c[4] \in {WS, QM}
    /\ Count(c, TR) = 1

\* C5, as stated: the id handed to the source lookup is exactly the link's id
\* token; a query string and any text after the link are no part of it.
\* Stated for the texts that start with their only link.
C5_LookupGetsIdToken ==
    \A h \in Handlers :
        LET c == Strip(task[h].content)
        IN  (task[h].lookup # "none" /\ LinkFirst(c)) => task[h].track_id = <<c[3]>>

\* The text ends in <anchor>track/<id>?<params>, the link starting at token i
EndsInLinkWithQuery(c, i) ==
    /\ i + 3 <= Len(c)
    /\ SubSeq(c, i, i + 1) \in {SpotifyAnchor, TidalAnchor}
    /\ c[i + 2] \notin Delims
    /\ c[i + 3] = QM
    /\ \A j \in (i + 4)..Len(c) : c[j] \notin Delims

\* C6, as stated: for a message ending in <anchor>track/<id>?<params>, the id
\* handed to the source lookup is <id>.
C6_QueryStringIsCut ==
    \A h \in Handlers :
        LET c == Strip(task[h].content)
        IN  task[h].lookup # "none" =>
                \A i \in 1..Len(c) :
                    EndsInLinkWithQuery(c, i) => task[h].track_id = <<c[i + 2]>>

\* The id token of the first Spotify track link of the text
SpotifyIdToken(c) ==
    LET i == CHOOSE k \in 1..(Len(c) - 1) :
                 /\ SubSeq(c, k, k + 1) = SpotifyAnchor
                 /\ \A j \in 1..(k - 1) : SubSeq(c, j, j + 1) # SpotifyAnchor
    IN  IF i + 2 <= Len(c) /\ c[i + 2] \notin Delims THEN <<c[i + 2]>> ELSE <<>>

\* Every "track/" of the text belongs to a link whose id token is followed by
\* nothing, by "?" or by whitespace
LinksApart(c) ==
    \A i \in 1..Len(c) :
        c[i] = TR =>
            /\ i > 1 /\ c[i - 1] \in {SP, TD}
            /\ i < Len(c) /\ c[i + 1] \notin Delims
            /\ i + 1 < Len(c) => c[i + 2] \in {WS, QM}

\* C7, as stated: a message with both a Spotify and a TIDAL track link, in
\* either order, is resolved as a Spotify request, and the id handed to the
\* Spotify lookup is the id token of the Spotify link.  Stated for the texts
\* whose links stand apart.
C7_BothLinksSpotifyId ==
    \A h \in Handlers :
        LET c == Strip(task[h].content)
        IN  (/\ task[h].lookup # "none"
             /\ Contains(c, SpotifyAnchor)
             /\ Contains(c, TidalAnchor)
             /\ LinksApart(c))
            => /\ task[h].source = "spotify"
               /\ task[h].track_id = SpotifyIdToken(c)

\* The part of C7 that holds: such a message takes the Spotify branch
C7_BothLinksSpotifyBranch ==
    \A h \in Handlers :
        LET c == Strip(task[h].content)
        IN  (/\ task[h].lookup # "none"
             /\ Contains(c, SpotifyAnchor)
             /\ Contains(c, TidalAnchor))
            => task[h].source = "spotify"

\* The part of C5 and C6 that holds: when the text's only "track/" is the
\* link's and the id token is the text's end or is followed by "?", the lookup
\* gets the id token
ParseSingleLinkOk ==
    \A h \in Handlers :
        LET c == Strip(task[h].content)
        IN  \A i \in 1..(Len(c) - 1) :
                (/\ task[h].lookup # "none"
                 /\ SubSeq(c, i, i + 1) \in {SpotifyAnchor, TidalAnchor}
                 /\ Count(c, TR) = 1
                 /\ i + 2 <= Len(c)
                 /\ c[i + 2] \notin Delims
                 /\ i + 2 < Len(c) => c[i + 3] = QM)
                => task[h].track_id = <<c[i + 2]>>

\* The ways a source lookup fails
LookupFailures == {"notfound", "transient", "auth"}

\* The ways a target search fails
SearchFailures == {"transient", "auth"}

\* C8: no failure of a provider call (source lookup, target search) and no
\* failure of the TIDAL login leaves on_message or on_ready as an exception:
\* no handler ends raised, and a handler whose lookup or search has failed is
\* at process_commands, able to run it, or has returned.
C8_NoProviderFailurePropagates ==
    /\ readyPc # "raised"
    /\ \A h \in Handlers :
          /\ task[h].pc # "raised"
          /\ (task[h].lookup \in LookupFailures
                \/ task[h].search \in SearchFailures)
             => \/ Done(h)
                \/ task[h].pc = "cmds" /\ ENABLED Cmds(h)

\* C8 witness: a login has failed and on_ready has ended, one message's source
\* lookup has failed and another's search has failed, and both on_message
\* calls have returned
C8_FailuresHandled ==
    /\ nLogins >= 1 /\ readyPc = "idle" /\ ~loggedIn
    /\ \E h1, h2 \in Handlers :
          /\ Done(h1) /\ task[h1].lookup \in LookupFailures
          /\ Done(h2) /\ task[h2].search \in SearchFailures

\* C9, as stated: a provider call that fails with a transient error and would
\* succeed within MaxFails further attempts is repeated until it succeeds, so
\* no handled message is left with a lookup or a search that failed by a
\* transient error.
C9_TransientFailureIsRetried ==
    \A h \in Handlers :
        Done(h) => task[h].lookup # "transient" /\ task[h].search # "transient"

\* C9, amended: every provider call is attempted once and never repeated.  A
\* lookup that fails on its one attempt ends the request with no search and
\* no reply; a search that fails on its one attempt ends it as no match, with
\* no reply.
C9_SingleAttemptNoRetry ==
    \A h \in Handlers :
        /\ task[h].nLookups <= 1
        /\ task[h].nSearches <= 1
        /\ task[h].lookup = "transient" =>
              /\ task[h].nLookups = 1
              /\ task[h].nSearches = 0
              /\ task[h].nReplies = 0
              /\ task[h].outcome = "Error"
        /\ task[h].search = "transient" =>
              /\ task[h].nSearches = 1
              /\ task[h].nReplies = 0
              /\ task[h].outcome = "NoMatch"

\* C9 witness: one message's lookup and another's search have each failed on
\* the one attempt made, and both messages ended unanswered
C9_FailedOnFirstAttempt ==
    \E h1, h2 \in Handlers :
        /\ Done(h1) /\ task[h1].lookup = "transient"
        /\ task[h1].nLookups = 1 /\ task[h1].nReplies = 0
        /\ Done(h2) /\ task[h2].search = "transient"
        /\ task[h2].nSearches = 1 /\ task[h2].nReplies = 0

\* C10, as stated: a search that fails with an error ends the request in an
\* outcome other than NoMatch.
C10_SearchErrorIsNotNoMatch ==
    \A h \in Handlers :
        (Done(h) /\ task[h].search \in SearchFailures)
        => task[h].outcome # "NoMatch"

\* C10, amended: a search that fails with an error ends the request exactly
\* as a search with an empty result does: the helper returns None, the flow
\* ends in NoMatch with no link and no reply.
C10_SearchErrorEndsAsNoMatch ==
    \A h \in Handlers :
        task[h].search \in SearchFailures \cup {"empty"} =>
            /\ task[h].pc \in {"cmds", "done"}
            /\ task[h].outcome = "NoMatch"
            /\ task[h].link = None
            /\ task[h].nReplies = 0

\* C10 witness: one message's search has failed and another's has returned
\* nothing, and both ended in NoMatch
C10_ErrorAndEmptyAlike ==
    \E h1, h2 \in Handlers :
        /\ Done(h1) /\ task[h1].search \in SearchFailures
        /\ Done(h2) /\ task[h2].search = "empty"
        /\ task[h1].outcome = "NoMatch" /\ task[h2].outcome = "NoMatch"

\* C11: a handled message with a recognized track link made exactly one source
\* lookup call and, when the lookup succeeded, exactly one search call (none
\* when it failed); no message makes two lookups or two searches.
C11_OneLookupOneSearch ==
    \A h \in Handlers :
        /\ task[h].nLookups <= 1
        /\ task[h].nSearches <= 1
        /\ (HasLink(h) /\ task[h].pc \in {"search", "reply", "cmds", "done"})
           => task[h].nLookups = 1
        /\ (HasLink(h) /\ task[h].pc \in {"reply", "cmds", "done"})
           => task[h].nSearches = (IF task[h].lookup = "ok" THEN 1 ELSE 0)

\* C11 witness: a message with a link was handled, its lookup succeeded, and
\* one lookup and one search were made
C11_LookupAndSearchOnce ==
    \E h \in Handlers :
        /\ Done(h) /\ HasLink(h)
        /\ task[h].lookup = "ok"
        /\ task[h].nLookups = 1 /\ task[h].nSearches = 1

\* The text holds neither "open.spotify.com/track/" nor "tidal.com/browse/track/"
NoAnchor(c) == ~Contains(c, SpotifyAnchor) /\ ~Contains(c, TidalAnchor)

\* C12: for a message whose text holds neither anchor, on_message sends no
\* reply and makes no provider lookup or search call.
C12_NoLinkNoAction ==
    \A h \in Handlers :
        (task[h].pc # "idle" /\ NoAnchor(task[h].content)) =>
            /\ task[h].nLookups = 0 /\ task[h].lookup = "none"
            /\ task[h].nSearches = 0 /\ task[h].search = "none"
            /\ task[h].nReplies = 0 /\ task[h].reply = None
            /\ task[h].tidalUse = "none"
            /\ task[h].pc \in {"queued", "cmds", "done"}

\* C12 witness: a text that holds "track/" but neither anchor was handled to
\* the end
C12_NearMissHandled ==
    \E h \in Handlers :
        /\ Done(h)
        /\ NoAnchor(task[h].content)
        /\ Contains(task[h].content, <<TR>>)
        /\ task[h].outcome = "NoLink"

\* C13, as stated: while one message's source lookup or target search is
\* outstanding, the handler of another delivered message can start.
C13_OtherHandlerCanProgress ==
    \A h1, h2 \in Handlers :
        (/\ h1 # h2
         /\ task[h1].pc \in {"lookup", "search"}
         /\ task[h2].pc = "queued")
        => ENABLED Begin(h2)

\* C14: login_oauth_simple is called by on_ready only.  Every step that
\* counts a login call is the start of on_ready and leaves all messages'
\* flows as they are, and the session's login changes only as on_ready ends;
\* no step of on_message, whatever failure its provider calls gave, does
\* either.
C14_LoginOnlyInOnReady ==
    [][/\ nLogins' # nLogins =>
            /\ readyPc = "queued" /\ readyPc' = "login"
            /\ running' = OnReady
            /\ nLogins' = nLogins + 1
            /\ task' = task
       /\ loggedIn' # loggedIn =>
            /\ readyPc = "login" /\ running = OnReady
            /\ task' = task]_vars

\* C14 witness: a message's TIDAL call was refused for want of a login, its
\* on_message has returned, and no login has been started
C14_AuthFailureNoLogin ==
    \E h \in Handlers :
        /\ Done(h)
        /\ task[h].lookup = "auth" \/ task[h].search = "auth"
        /\ nLogins = 0

\* C15: a reply to a message with a Spotify link carries a TIDAL URL, built
\* from a track the TIDAL search returned, and a reply to a message with a
\* TIDAL link carries a Spotify URL from the Spotify search; no link or reply
\* is of the source's own provider.
C15_ReplyIsOtherProvider ==
    \A h \in Handlers :
        /\ task[h].link # None =>
              /\ task[h].source \in {"spotify", "tidal"}
              /\ task[h].search = "hit"
              /\ task[h].source = "spotify" =>
                    /\ SubSeq(task[h].link, 2, 3) = TidalAnchor
                    /\ task[h].link[4] \in DOMAIN TidalCatalog
                    /\ ~Contains(task[h].link, SpotifyAnchor)
                    /\ task[h].tidalUse = "loggedin"
              /\ task[h].source = "tidal" =>
                    /\ SubSeq(task[h].link, 2, 3) = SpotifyAnchor
                    /\ task[h].link[4] \in DOMAIN SpotifyCatalog
                    /\ ~Contains(task[h].link, TidalAnchor)
        /\ task[h].reply # None =>
              /\ task[h].link # None
              /\ SubSeq(task[h].reply, 2, Len(task[h].reply)) = task[h].link

\* C15 witness: a message with a Spotify link and a message with a TIDAL link
\* have both been answered
C15_BothDirectionsAnswered ==
    \E h1, h2 \in Handlers :
        /\ task[h1].source = "spotify" /\ task[h1].nReplies = 1
        /\ task[h2].source = "tidal" /\ task[h2].nReplies = 1

\* C16, as stated: however many ready events arrive, login_oauth_simple is
\* called at most once.
C16_LoginAtMostOnce ==
    nLogins <= 1

\* C17: a failed source lookup ends the resolution.  A target search is made
\* only after a lookup that returned a track; after a lookup that failed the
\* flow is at process_commands or over, with no search, no link and no reply.
C17_FailedLookupIsTerminal ==
    \A h \in Handlers :
        /\ (task[h].nSearches > 0 \/ task[h].search # "none")
              => task[h].lookup = "ok"
        /\ task[h].pc \in {"search", "reply"} => task[h].lookup = "ok"
        /\ task[h].lookup \in LookupFailures =>
              /\ task[h].pc \in {"cmds", "done"}
              /\ task[h].nSearches = 0
              /\ task[h].link = None
              /\ task[h].nReplies = 0

\* C17 witness: a message's source lookup failed and its on_message has
\* returned without a search
C17_LookupFailedNoSearch ==
    \E h \in Handlers :
        /\ Done(h)
        /\ task[h].lookup \in LookupFailures
        /\ task[h].nLookups = 1
        /\ task[h].nSearches = 0

\* C18: a message gets at most one reply, whatever its text: one link, a
\* link of each provider, or the same link several times.
C18_AtMostOneReply ==
    \A h \in Handlers :
        /\ task[h].nReplies <= 1
        /\ task[h].nReplies = 1 <=> task[h].reply # None

\* C18 witness: a message whose text holds a Spotify link and a TIDAL link
\* has been answered, once, and its on_message has returned
C18_BothLinksOneReply ==
    \E h \in Handlers :
        /\ Done(h)
        /\ Contains(task[h].content, SpotifyAnchor)
        /\ Contains(task[h].content, TidalAnchor)
        /\ task[h].nReplies = 1

\* C19: a message written by the bot is dropped at the first test of
\* on_message, links in its text or not: no lookup, no search, no use of the
\* TIDAL session, no reply and no process_commands.
C19_OwnMessageIgnored ==
    \A h \in Handlers :
        (task[h].author = "bot" /\ task[h].pc # "idle") =>
            /\ task[h].pc \in {"queued", "done"}
            /\ task[h].source = "none"
            /\ task[h].nLookups = 0
            /\ task[h].nSearches = 0
            /\ task[h].nReplies = 0
            /\ task[h].nCmds = 0
            /\ task[h].tidalUse = "none"
            /\ task[h].reply = None

\* C19 witness: the bot's own reply, which carries a track link, came back as
\* a message and its on_message has returned
C19_OwnReplyCameBack ==
    \E h \in Handlers :
        /\ Done(h)
        /\ task[h].author = "bot"
        /\ Branch(Strip(task[h].content)) # "none"

\* C20: a message not written by the bot reaches process_commands exactly
\* once, after the resolution attempt and whatever it gave: never before or
\* during the lookup, search or reply, always possible once they are over,
\* and no on_message ends without it.
C20_CommandsExactlyOnce ==
    \A h \in Handlers :
        task[h].author = "user" =>
            /\ task[h].nCmds <= 1
            /\ task[h].pc \in {"queued", "lookup", "search", "reply", "cmds"}
                  => task[h].nCmds = 0
            /\ task[h].pc = "cmds" => ENABLED Cmds(h)
            /\ task[h].pc # "raised"
            /\ task[h].pc = "done" => task[h].nCmds = 1
            /\ task[h].nCmds = 1 => task[h].pc = "done"

\* C20 witness: one message's resolution failed, another's gave a reply, and
\* both were handed to process_commands
C20_CommandsAfterErrorAndMatch ==
    \E h1, h2 \in Handlers :
        /\ task[h1].author = "user" /\ task[h2].author = "user"
        /\ Done(h1) /\ task[h1].outcome = "Error" /\ task[h1].nCmds = 1
        /\ Done(h2) /\ task[h2].outcome = "Matched" /\ task[h2].nCmds = 1

====
